---- MODULE Spec2Model ----
(***************************************************************************)
(* A model of the deminer game engine (src/src/game/mod.rs, cell.rs):      *)
(* a board of cells, mine planting with neighbour counts, flag toggling,   *)
(* opening with the recursive sweep, and the derived status.               *)
(***************************************************************************)
EXTENDS Integers, Sequences, FiniteSets, TLC

VARIABLES
    rows,             \* Game.rows  (u8)
    cols,             \* Game.cols  (u8)
    bombs,            \* Game.bombs (u8)
    cells,            \* Game.cells: Pos -> Cell
    has_lost,         \* Game.has_lost
    ret,              \* what the last call returned (a Status), or how it ended
    phase,            \* "planting" until the caller's first toggle_flag/open
    calls,            \* number of toggle_flag/open calls made so far
    planted,          \* history: the positions plant_bomb was called on
    last,             \* history: the last call made, <<name, pos>>
    overflow_checks   \* build profile: TRUE = arithmetic overflow panics (dev/test)

vars == <<rows, cols, bombs, cells, has_lost, ret, phase, calls, planted, last,
          overflow_checks>>

----------------------------------------------------------------------------
(* Bounds of the model *)

MaxRows == 3
MaxCols == 3
MaxCells == 6
MaxBombs == 1
MaxMines == 2
MaxCalls == 3
MaxTestCalls == 2
MaxPlantMines == 8
MaxPlantCells == 9
MaxAnyCalls == 2
MaxWideCalls == 2
MaxCount == 5

----------------------------------------------------------------------------
(* Fixed-width integers *)

U8 == 256

AsU8(n) == n % U8

\* `n as i8` for a u8 or usize n
AsI8(n) == IF n % U8 >= 128 THEN (n % U8) - U8 ELSE n % U8

FitsI8(n) == -128 <= n /\ n <= 127

\* two's complement wrap of an integer into i8 (release profile)
WrapI8(n) == ((n + 128 + 4 * U8) % U8) - 128

----------------------------------------------------------------------------
(* Cell (cell.rs) *)

Bomb == [tag |-> "Bomb", num |-> 0]

Empty == [tag |-> "Empty", num |-> 0]

BombsAround(n) == [tag |-> "BombsAround", num |-> n]

cell_new == [shown |-> FALSE, exploded |-> FALSE, flagged |-> FALSE, value |-> Empty]

is_shown(c) == c.shown

is_exploded(c) == c.exploded

is_flagged(c) == c.flagged

is_mined(c) == c.value = Bomb

\* mutant of Cell::explode: the cell is not marked
explode_forgotten(c) == c

explode(c) == [c EXCEPT !.exploded = TRUE]

bombs_around(c) == IF c.value.tag = "BombsAround" THEN c.value.num ELSE 0

show(c) == [c EXCEPT !.shown = TRUE]

\* mutant of Cell::toggle_flag: the flag is set, not flipped
cell_toggle_flag_sets(c) == [c EXCEPT !.flagged = TRUE]

cell_toggle_flag(c) == [c EXCEPT !.flagged = ~c.flagged]

cell_plant_bomb(c) == [c EXCEPT !.value = Bomb]

inc_bombs_around(c) == [c EXCEPT !.value = BombsAround(bombs_around(c) + 1)]

----------------------------------------------------------------------------
(* Status *)

InProgress(n) == [kind |-> "InProgress", flags |-> n]

Lost == [kind |-> "Lost", flags |-> 0]

Won == [kind |-> "Won", flags |-> 0]

\* no call has returned yet
NoStatus == [kind |-> "None", flags |-> 0]

\* the call did not return: the thread panicked
Panic == [kind |-> "Panic", flags |-> 0]

\* the call did not return: the recursion did not end
Hang == [kind |-> "Hang", flags |-> 0]

----------------------------------------------------------------------------
(* Game (mod.rs) *)

\* the keys Game::new inserts
Pos == (0 .. rows - 1) \X (0 .. cols - 1)

new_cells == [p \in Pos |-> cell_new]

\* cell / cell_mut find the key
has_cell(pos) == pos \in Pos

Max(a, b) == IF a > b THEN a ELSE b

Min(a, b) == IF a < b THEN a ELSE b

\* mutant of iter_neighbors: the ranges end at x and y, not one past them
iter_neighbors_short(pos) ==
    LET x == pos[1]
        y == pos[2]
    IN  { q \in (Max(x, 1) - 1 .. Min(x, rows - 1))
                  \X (Max(y, 1) - 1 .. Min(y, cols - 1)) : q # pos }

iter_neighbors(pos) ==
    LET x == pos[1]
        y == pos[2]
    IN  { q \in (Max(x, 1) - 1 .. Min(x + 1, rows - 1))
                  \X (Max(y, 1) - 1 .. Min(y + 1, cols - 1)) : q # pos }

\* mutant of plant_bomb: the count of a mined neighbour is incremented too
plant_bomb_cells_unguarded(cs, pos) ==
    LET cs1 == [cs EXCEPT ![pos] = cell_plant_bomb(cs[pos])]
    IN  [q \in DOMAIN cs1 |->
            IF q \in iter_neighbors(pos)
            THEN inc_bombs_around(cs1[q])
            ELSE cs1[q]]

\* the loop of plant_bomb touches each neighbour once, reading only that cell
plant_bomb_cells(cs, pos) ==
    LET cs1 == [cs EXCEPT ![pos] = cell_plant_bomb(cs[pos])]
    IN  [q \in DOMAIN cs1 |->
            IF q \in iter_neighbors(pos) /\ ~is_mined(cs1[q])
            THEN inc_bombs_around(cs1[q])
            ELSE cs1[q]]

ShownCount(cs) == Cardinality({p \in DOMAIN cs : is_shown(cs[p])})

FlaggedCount(cs) == Cardinality({p \in DOMAIN cs : is_flagged(cs[p])})

MinedCount(cs) == Cardinality({p \in DOMAIN cs : is_mined(cs[p])})

\* rows * cols - cleared_cells in u8: TRUE when the arithmetic leaves u8
is_won_overflows(cs) ==
    \/ rows * cols >= U8
    \/ AsU8(rows * cols) < AsU8(ShownCount(cs))

\* mutant of is_won: the bombs are left out of the comparison
is_won_all_shown(cs) == AsU8(AsU8(rows * cols) - AsU8(ShownCount(cs)) + U8) = 0

\* mutant of is_won: the game is won when as many cells are flagged as bombs
is_won_when_flagged(cs) == FlaggedCount(cs) = bombs

is_won(cs) ==
    AsU8(AsU8(rows * cols) - AsU8(ShownCount(cs)) + U8) = bombs

flags_left_overflows(cs) ==
    ~FitsI8(AsI8(bombs) - AsI8(FlaggedCount(cs)))

flags_left(cs) == WrapI8(AsI8(bombs) - AsI8(FlaggedCount(cs)))

status(cs, lost) ==
    IF lost THEN Lost
    ELSE IF overflow_checks /\ is_won_overflows(cs) THEN Panic
    ELSE IF is_won(cs) THEN Won
    ELSE IF overflow_checks /\ flags_left_overflows(cs) THEN Panic
    ELSE InProgress(flags_left(cs))

----------------------------------------------------------------------------
(* The sweep.  The recursion of sweep_mine / show_empty_neighbours is run   *)
(* on its call stack: g.pending lists the sweep_mine calls still to make,  *)
(* next first; g.log lists the cells shown, in order.                      *)

\* mutant of line 120: the offset -1 is missing
neighbours_forward == <<0, 1, 1>>

\* line 120
neighbours == <<0, 1, -1>>

\* mutant of the check of line 108: the test for a shown cell is missing
sweep_skips_shown_swept(c) == is_mined(c) \/ is_flagged(c)

\* mutant of the check of line 108: the test for a flag is missing
sweep_skips_flagged_swept(c) == is_shown(c) \/ is_mined(c)

\* the check of line 108
sweep_skips(c) == is_shown(c) \/ is_mined(c) \/ is_flagged(c)

\* mutant of the check of line 114: a cell with one mine around spreads too
sweep_spreads_from_one(c) == bombs_around(c) <= 1

\* the check of line 114
sweep_spreads(c) == bombs_around(c) < 1

\* the nine calls sweep_mine((x + i, y + j)) of the nested loops, in loop order
show_empty_neighbours(x, y) ==
    [k \in 1 .. 9 |-> <<x + neighbours[((k - 1) \div 3) + 1],
                        y + neighbours[((k - 1) % 3) + 1]>>]

\* the boundary check of line 103 overflows: rows - 1 or cols - 1 leaves i8,
\* in a disjunct that the short-circuit evaluation reaches
sweep_overflows(x, y) ==
    /\ x >= 0 /\ y >= 0
    /\ \/ ~FitsI8(AsI8(rows) - 1)
       \/ /\ ~(WrapI8(AsI8(rows) - 1) < x)
          /\ ~FitsI8(AsI8(cols) - 1)

\* the boundary check of line 103
sweep_outside(x, y) ==
    x < 0 \/ y < 0 \/ WrapI8(AsI8(rows) - 1) < x \/ WrapI8(AsI8(cols) - 1) < y

\* one call sweep_mine((x, y)): the first of g.pending; its own calls go in front
sweep_mine(g) ==
    IF g.panic \/ g.pending = <<>> THEN g
    ELSE LET arg == Head(g.pending)
             rest == Tail(g.pending)
             x == WrapI8(arg[1])
             y == WrapI8(arg[2])
         IN  IF overflow_checks /\ (~FitsI8(arg[1]) \/ ~FitsI8(arg[2]) \/ sweep_overflows(x, y))
             THEN [g EXCEPT !.panic = TRUE]
             ELSE IF sweep_outside(x, y) THEN [g EXCEPT !.pending = rest]
             ELSE IF ~has_cell(<<x, y>>) THEN [g EXCEPT !.panic = TRUE]
             ELSE IF sweep_skips(g.cells[<<x, y>>]) THEN [g EXCEPT !.pending = rest]
             ELSE [g EXCEPT !.cells[<<x, y>>] = show(@),
                            !.log = Append(@, <<x, y>>),
                            !.pending = IF sweep_spreads(g.cells[<<x, y>>])
                                        THEN show_empty_neighbours(x, y) \o rest
                                        ELSE rest]

The(S) == CHOOSE v \in S : TRUE

RECURSIVE sweep_run(_, _)
\* the next n calls of the recursion, made one after the other: the first
\* half of them, then the rest on the board and the stack they leave
sweep_run(g, n) ==
    IF n = 0 \/ g.pending = <<>> \/ g.panic THEN g
    ELSE IF n = 1 THEN sweep_mine(g)
    ELSE The({ sweep_run(h, n - (n \div 2)) : h \in {sweep_run(g, n \div 2)} })

\* every cell shown makes at most nine calls, after the first one
sweep_calls == 9 * rows * cols + 1

\* mutant of lines 86-91: opening a mine does not set the flag
open_lost_unset(c, lost) == lost

\* mutant of lines 86-91: lost is recomputed from the cell just opened
open_lost_recomputed(c, lost) == is_mined(c)

\* lines 86-91: opening a mine sets the sticky flag
open_lost(c, lost) == IF is_mined(c) THEN TRUE ELSE lost

\* mutant of lines 86-93: an opened mine is exploded but not shown
open_cells_mine_hidden(cs, pos) ==
    sweep_run([cells |-> IF is_mined(cs[pos])
                         THEN [cs EXCEPT ![pos] = explode(@)]
                         ELSE cs,
               log |-> <<>>,
               panic |-> FALSE,
               pending |-> << <<AsI8(pos[1]), AsI8(pos[2])>> >>],
              sweep_calls)

\* lines 86-93: the board open leaves once past its early return
open_cells(cs, pos) ==
    sweep_run([cells |-> IF is_mined(cs[pos])
                         THEN [cs EXCEPT ![pos] = show(explode(@))]
                         ELSE cs,
               log |-> <<>>,
               panic |-> FALSE,
               pending |-> << <<AsI8(pos[1]), AsI8(pos[2])>> >>],
              sweep_calls)

\* mutant of the early return of open: a flagged cell is opened
open_returns_early_shown_only(c) == is_shown(c)

\* the early return of open
open_returns_early(c) == is_shown(c) \/ is_flagged(c)

----------------------------------------------------------------------------
(* Operations *)

Running == ret # Panic /\ ret # Hang

plant_bomb(pos) ==
    /\ Running
    /\ phase = "planting"
    /\ IF ~has_cell(pos)
       THEN /\ ret' = Panic
            /\ last' = <<"plant_bomb", pos>>
            /\ UNCHANGED <<cells, planted>>
       ELSE /\ cells' = plant_bomb_cells(cells, pos)
            /\ planted' = planted \cup {pos}
            /\ last' = <<"plant_bomb", pos>>
            /\ ret' = ret
    /\ UNCHANGED <<rows, cols, bombs, has_lost, phase, calls, overflow_checks>>

\* mutant of lines 70-75 of toggle_flag: a shown cell is flipped too
toggle_flag_cells_any(cs, pos) == [cs EXCEPT ![pos] = cell_toggle_flag(@)]

\* lines 70-75 of toggle_flag: a shown cell is left alone, a hidden one flipped
toggle_flag_cells(cs, pos) ==
    IF is_shown(cs[pos]) THEN cs ELSE [cs EXCEPT ![pos] = cell_toggle_flag(@)]

\* mutant of toggle_flag: a position without a cell is ignored, not a panic
toggle_flag_ignores_missing(pos) ==
    /\ Running
    /\ IF ~has_cell(pos)
       THEN /\ ret' = status(cells, has_lost)
            /\ last' = <<"toggle_flag", pos>>
            /\ UNCHANGED cells
       ELSE /\ last' = <<"toggle_flag", pos>>
            /\ \E cs1 \in {toggle_flag_cells(cells, pos)} :
                  /\ cells' = cs1
                  /\ ret' = status(cs1, has_lost)
    /\ phase' = "playing"
    /\ calls' = calls + 1
    /\ UNCHANGED <<rows, cols, bombs, has_lost, planted, overflow_checks>>

toggle_flag(pos) ==
    /\ Running
    /\ IF ~has_cell(pos)
       THEN /\ ret' = Panic
            /\ last' = <<"toggle_flag", pos>>
            /\ UNCHANGED cells
       ELSE /\ last' = <<"toggle_flag", pos>>
            /\ \E cs1 \in {toggle_flag_cells(cells, pos)} :
                  /\ cells' = cs1
                  /\ ret' = status(cs1, has_lost)
    /\ phase' = "playing"
    /\ calls' = calls + 1
    /\ UNCHANGED <<rows, cols, bombs, has_lost, planted, overflow_checks>>

open(pos) ==
    /\ Running
    /\ IF ~has_cell(pos)
       THEN /\ ret' = Panic
            /\ last' = <<"open", pos>>
            /\ UNCHANGED <<cells, has_lost>>
       ELSE /\ last' = <<"open", pos>>
            /\ IF open_returns_early(cells[pos])
               THEN /\ ret' = status(cells, has_lost)
                    /\ UNCHANGED <<cells, has_lost>>
               ELSE \E o \in {open_cells(cells, pos)} :
                        /\ cells' = o.cells
                        /\ has_lost' = open_lost(cells[pos], has_lost)
                        /\ ret' = IF o.panic THEN Panic
                                  ELSE IF o.pending # <<>> THEN Hang
                                  ELSE status(o.cells, open_lost(cells[pos], has_lost))
    /\ phase' = "playing"
    /\ calls' = calls + 1
    /\ UNCHANGED <<rows, cols, bombs, planted, overflow_checks>>

\* the read accessor Game::cell: it returns the cell or panics
cell(pos) ==
    /\ Running
    /\ IF ~has_cell(pos)
       THEN ret' = Panic /\ last' = <<"cell", pos>>
       ELSE ret' = ret /\ last' = last
    /\ UNCHANGED <<rows, cols, bombs, cells, has_lost, phase, calls, planted, overflow_checks>>

----------------------------------------------------------------------------
(* Specifications *)

\* Game::new(r, c, b)
new(r, c, b) ==
    /\ rows = r
    /\ cols = c
    /\ bombs = b
    /\ cells = new_cells
    /\ has_lost = FALSE

Fresh ==
    /\ last = <<"new", <<0, 0>> >>
    /\ ret = NoStatus
    /\ calls = 0
    /\ overflow_checks = TRUE

\* the board of tests::empty_neighbours_are_shown_when_an_empty_cell_is_open
test_rows == 4

test_cols == 4

test_bombs == 0

test_mine == <<3, 3>>

\* that test's board once its mine is planted, the caller about to play
InitTest ==
    /\ rows = test_rows
    /\ cols = test_cols
    /\ bombs = test_bombs
    /\ cells = plant_bomb_cells(new_cells, test_mine)
    /\ has_lost = FALSE
    /\ planted = {test_mine}
    /\ phase = "playing"
    /\ Fresh

InitNew ==
    /\ \E r \in 1 .. MaxRows, c \in 1 .. MaxCols, b \in 0 .. MaxBombs :
          /\ r * c <= MaxCells
          /\ new(r, c, b)
    /\ planted = {}
    /\ phase = "planting"
    /\ Fresh

Init == InitNew \/ InitTest

\* every position of the board, and those one step past its last row or column
Inputs == (0 .. rows) \X (0 .. cols)

\* an in-contract caller: distinct in-range mines, planted before play
Plant ==
    \E pos \in Pos :
        /\ pos \notin planted
        /\ Cardinality(planted) < MaxMines
        /\ plant_bomb(pos)

\* the calls explored: MaxCalls, and MaxTestCalls on the board of the test
CallsLeft == calls < (IF rows * cols > MaxCells THEN MaxTestCalls ELSE MaxCalls)

Toggle == \E pos \in Pos : CallsLeft /\ toggle_flag(pos)

Open == \E pos \in Pos : CallsLeft /\ open(pos)

Next == Plant \/ Toggle \/ Open

Spec == Init /\ [][Next]_vars

\* a caller that may also pass positions outside the board
PlantAny ==
    \E pos \in Inputs :
        /\ pos \notin planted
        /\ Cardinality(planted) < MaxMines
        /\ plant_bomb(pos)

ToggleAny == \E pos \in Inputs : calls < MaxAnyCalls /\ toggle_flag(pos)

OpenAny == \E pos \in Inputs : calls < MaxAnyCalls /\ open(pos)

CellAny == \E pos \in Inputs : cell(pos)

NextAny == PlantAny \/ ToggleAny \/ OpenAny \/ CellAny

SpecAny == Init /\ [][NextAny]_vars

\* planting only, on every board up to MaxRows x MaxCols of at most MaxPlantCells
InitPlant ==
    /\ \E r \in 1 .. MaxRows, c \in 1 .. MaxCols, b \in 0 .. MaxBombs :
          r * c <= MaxPlantCells /\ new(r, c, b)
    /\ planted = {}
    /\ phase = "planting"
    /\ Fresh

PlantMany ==
    \E pos \in Pos :
        /\ pos \notin planted
        /\ Cardinality(planted) < MaxPlantMines
        /\ plant_bomb(pos)

NextPlant == PlantMany

SpecPlant == InitPlant /\ [][NextPlant]_vars

\* games at the edges of the u8 fields of Game::new: <<rows, cols, bombs>>
WideGames ==
    { <<1, 2, 127>>, <<1, 2, 128>>, <<1, 2, 200>>, <<1, 2, 255>>,
      <<127, 1, 0>>, <<128, 1, 0>>, <<200, 1, 1>>, <<1, 255, 0>>,
      <<2, 128, 1>>, <<16, 16, 0>>, <<15, 17, 1>>, <<3, 3, 3>> }

\* positions at the ends of the board and around the sign bit of i8
WideIndex(n) == {0, 1, 126, 127, 128, 129, n - 1} \cap (0 .. n - 1)

WidePos == {p \in Pos : p[1] \in WideIndex(rows) /\ p[2] \in WideIndex(cols)}

\* play on the wide games, in either build profile
InitWide ==
    /\ \E g \in WideGames : new(g[1], g[2], g[3])
    /\ planted = {}
    /\ phase = "planting"
    /\ last = <<"new", <<0, 0>> >>
    /\ ret = NoStatus
    /\ calls = 0
    /\ overflow_checks \in BOOLEAN

ToggleWide == \E pos \in WidePos : calls < MaxWideCalls /\ toggle_flag(pos)

OpenWide == \E pos \in WidePos : calls < MaxWideCalls /\ open(pos)

NextWide == ToggleWide \/ OpenWide

SpecWide == InitWide /\ [][NextWide]_vars

\* the methods of Cell called in any order on one cell, kept at (0,0) of a
\* 1x1 board
the_cell == <<0, 0>>

InitCell ==
    /\ new(1, 1, 0)
    /\ planted = {}
    /\ phase = "planting"
    /\ Fresh

\* one call of a method of Cell that changes the cell into c1
cell_call(name, c1) ==
    /\ cells' = [cells EXCEPT ![the_cell] = c1]
    /\ last' = <<name, the_cell>>
    /\ UNCHANGED <<rows, cols, bombs, has_lost, ret, phase, calls, planted, overflow_checks>>

CellExplode == cell_call("Cell::explode", explode(cells[the_cell]))

CellShow == cell_call("Cell::show", show(cells[the_cell]))

CellToggleFlag == cell_call("Cell::toggle_flag", cell_toggle_flag(cells[the_cell]))

CellPlantBomb == cell_call("Cell::plant_bomb", cell_plant_bomb(cells[the_cell]))

CellIncBombsAround ==
    /\ bombs_around(cells[the_cell]) < MaxCount
    /\ cell_call("Cell::inc_bombs_around", inc_bombs_around(cells[the_cell]))

NextCell ==
    CellExplode \/ CellShow \/ CellToggleFlag \/ CellPlantBomb \/ CellIncBombsAround

SpecCell == InitCell /\ [][NextCell]_vars

----------------------------------------------------------------------------
(* Vocabulary of the properties *)

\* the 8-neighbourhood of p on the board
Adjacent(p, q) ==
    /\ p # q
    /\ p[1] - q[1] \in -1 .. 1
    /\ p[2] - q[2] \in -1 .. 1

Clipped(p) == {q \in Pos : Adjacent(p, q)}

\* this step is the call name(pos)
Called(name, pos) ==
    /\ last' = <<name, pos>>
    /\ calls' # calls \/ planted' # planted \/ (ret # Panic /\ ret' = Panic)

\* the cells a step turns from hidden to shown
NewlyShown == {q \in Pos : ~is_shown(cells[q]) /\ is_shown(cells'[q])}

\* a sweep has stopped next to q: some shown count-0 cell is adjacent to q
BesideShownZero(q) ==
    \E z \in Clipped(q) :
        is_shown(cells[z]) /\ ~is_mined(cells[z]) /\ bombs_around(cells[z]) = 0

----------------------------------------------------------------------------
(* C1: no open call changes a cell that is flagged or already shown when   *)
(* the call is made, and the only mined cell open(pos) can mark shown is   *)
(* the cell at pos itself.                                                 *)
C1_SweepSparesFlaggedMinedShown ==
    [][\A pos \in Pos : Called("open", pos) =>
          \A q \in Pos :
              /\ is_flagged(cells[q]) => cells'[q] = cells[q]
              /\ is_shown(cells[q]) => cells'[q] = cells[q]
              /\ (is_mined(cells[q]) /\ q \in NewlyShown) => q = pos]_vars

\* a sweep ran up to a flagged cell and up to a mine and left both hidden
C1_Witness ==
    /\ last[1] = "open"
    /\ \E f \in Pos : is_flagged(cells[f]) /\ ~is_shown(cells[f]) /\ BesideShownZero(f)
    /\ \E m \in Pos :
          /\ is_mined(cells[m]) /\ ~is_shown(cells[m]) /\ ~is_flagged(cells[m])
          /\ \E n \in Clipped(m) : is_shown(cells[n])

----------------------------------------------------------------------------
(* C2: open(pos) on a hidden, unflagged, unmined cell shows exactly the    *)
(* smallest set that holds pos and, with every count-0 cell in it, that    *)
(* cell's hidden, unflagged, unmined neighbours; on the 4x4 board with one *)
(* mine at (3,3), open((0,0)) shows every cell off row 3 and column 3.     *)

Fillable(cs, q) == ~is_shown(cs[q]) /\ ~is_flagged(cs[q]) /\ ~is_mined(cs[q])

RECURSIVE Region(_, _)
Region(cs, S) ==
    LET T == S \cup {q \in Pos : /\ Fillable(cs, q)
                                 /\ \E c \in S : bombs_around(cs[c]) = 0 /\ Adjacent(c, q)}
    IN  IF T = S THEN S ELSE Region(cs, T)

OnTestBoard ==
    /\ rows = test_rows /\ cols = test_cols /\ planted = {test_mine}
    /\ ShownCount(cells) = 0 /\ FlaggedCount(cells) = 0

C2_OpenShowsRegion ==
    [][\A pos \in Pos : (Called("open", pos) /\ Fillable(cells, pos)) =>
          /\ NewlyShown = Region(cells, {pos})
          /\ (OnTestBoard /\ pos = <<0, 0>>) =>
                \A q \in Pos : (q[1] # 3 /\ q[2] # 3) => is_shown(cells'[q])]_vars

\* the test's open((0,0)) has run: all but the mine is shown
C2_Witness ==
    /\ rows = test_rows /\ cols = test_cols
    /\ last = <<"open", <<0, 0>> >> /\ calls = 1
    /\ ShownCount(cells) = 15 /\ ~is_shown(cells[test_mine])

----------------------------------------------------------------------------
(* C3: once a call has returned Lost, every later toggle_flag or open call *)
(* returns Lost.                                                           *)
C3_LostIsSticky == [][ret = Lost => ret' = Lost]_vars

\* a toggle_flag and an open of an unmined cell have returned Lost
C3_Witness ==
    /\ ret = Lost /\ calls >= 3
    /\ \E q \in Pos : is_flagged(cells[q])
    /\ last[1] = "open" /\ ~is_mined(cells[last[2]]) /\ is_shown(cells[last[2]])

----------------------------------------------------------------------------
(* C4: the status returned is Lost iff some cell is mined, shown and not   *)
(* flagged; and a mined cell becomes shown only by open called on it.      *)
MineShown(cs) ==
    \E p \in Pos : is_mined(cs[p]) /\ is_shown(cs[p]) /\ ~is_flagged(cs[p])

C4_LostIffMineShown ==
    [][/\ calls' > 0 => (ret' = Lost <=> MineShown(cells'))
       /\ \A p \in Pos : (is_mined(cells[p]) /\ p \in NewlyShown) => Called("open", p)]_vars

\* a mine was opened, and a sweep has shown a cell next to another mine
C4_Witness ==
    /\ ret = Lost /\ MineShown(cells)
    /\ \E m \in Pos :
          /\ is_mined(cells[m]) /\ ~is_shown(cells[m]) /\ ~is_flagged(cells[m])
          /\ \E n \in Clipped(m) : is_shown(cells[n]) /\ ~is_mined(cells[n])

----------------------------------------------------------------------------
----------------------------------------------------------------------------
(* C6, as claimed: once the status is Lost or Won, a further toggle_flag   *)
(* or open call changes no cell and returns the same status.               *)
C6_NoOpAfterEnd ==
    [][(ret = Lost \/ ret = Won) =>
          (cells' = cells /\ has_lost' = has_lost /\ ret' = ret)]_vars

----------------------------------------------------------------------------
(* C7, as claimed: a call with a position outside the board yields an      *)
(* OutOfBounds error value and leaves the board as it was.                 *)
OutOfBounds == [kind |-> "OutOfBounds", flags |-> 0]

Operations == {"plant_bomb", "toggle_flag", "open", "cell"}

----------------------------------------------------------------------------
(* C8: after plant_bomb on each position of a set M of distinct positions, *)
(* in any order, the cells of M are mined and every other cell counts the  *)
(* positions of M in its clipped 8-neighbourhood: the board is a function  *)
(* of M alone.                                                             *)
CountAround(M, q) == Cardinality(M \cap Clipped(q))

BoardOf(M) ==
    [q \in Pos |->
        [cell_new EXCEPT !.value =
            IF q \in M THEN Bomb
            ELSE IF CountAround(M, q) = 0 THEN Empty
            ELSE BombsAround(CountAround(M, q))]]

C8_CountsMatchPlanted ==
    phase = "planting" =>
        /\ cells = BoardOf(planted)
        /\ \A q \in Pos :
              /\ q \in planted => is_mined(cells[q])
              /\ q \notin planted =>
                    /\ ~is_mined(cells[q])
                    /\ bombs_around(cells[q]) = CountAround(planted, q)
                    /\ bombs_around(cells[q]) \in 0 .. 8

\* a cell with eight mines around it, and a mine with mines around it
C8_Witness ==
    /\ phase = "planting"
    /\ \E q \in Pos : bombs_around(cells[q]) = 8
    /\ \E m \in planted : planted \cap Clipped(m) # {}

----------------------------------------------------------------------------
(* C9, as claimed: on every grid plant_bomb(p) updates the clipped         *)
(* 8-neighbourhood of p without p: 3 cells at a corner, 5 on an edge, 8    *)
(* inside.                                                                 *)
Corner(p) == p[1] \in {0, rows - 1} /\ p[2] \in {0, cols - 1}

Edge(p) == p[1] \in {0, rows - 1} \/ p[2] \in {0, cols - 1}

NeighbourCount(p) == IF Corner(p) THEN 3 ELSE IF Edge(p) THEN 5 ELSE 8

\* the cells besides p that a step changes
Updated(p) == {q \in Pos \ {p} : cells'[q] # cells[q]}

C9_NeighbourCounts ==
    [][\A p \in Pos : Called("plant_bomb", p) =>
          /\ iter_neighbors(p) = Clipped(p)
          /\ Updated(p) = Clipped(p) \ planted
          /\ Cardinality(iter_neighbors(p)) = NeighbourCount(p)]_vars

(* C9, amended: on every grid plant_bomb(p) updates the clipped            *)
(* 8-neighbourhood of p without p (its cells not mined); that               *)
(* neighbourhood has 3 cells at a corner, 5 on an edge and 8 inside when   *)
(* the grid has at least 2 rows and 2 columns.                             *)
C9_NeighbourCountsFromTwoByTwo ==
    [][\A p \in Pos : Called("plant_bomb", p) =>
          /\ iter_neighbors(p) = Clipped(p)
          /\ Updated(p) = Clipped(p) \ planted
          /\ (rows >= 2 /\ cols >= 2) =>
                Cardinality(iter_neighbors(p)) = NeighbourCount(p)]_vars

\* one mine inside a grid, its eight neighbours counting it
C9_Witness ==
    /\ \E p \in Pos : /\ planted = {p} /\ ~Edge(p)
                      /\ \A q \in Clipped(p) : bombs_around(cells[q]) = 1
    /\ MinedCount(cells) = 1

----------------------------------------------------------------------------
(* C10: open(pos) on a cell that is shown or flagged changes no cell and   *)
(* not the lost flag, and returns the status as it was before the call.    *)
C10_OpenShownOrFlaggedIsNoOp ==
    [][\A pos \in Pos :
          (Called("open", pos) /\ (is_shown(cells[pos]) \/ is_flagged(cells[pos]))) =>
              /\ cells' = cells
              /\ has_lost' = has_lost
              /\ ret' = status(cells, has_lost)]_vars

\* open was called on a flagged mine, which is still hidden and flagged
C10_Witness ==
    /\ last[1] = "open"
    /\ is_mined(cells[last[2]]) /\ is_flagged(cells[last[2]])
    /\ ~is_shown(cells[last[2]]) /\ ~has_lost

----------------------------------------------------------------------------
(* C11: toggle_flag(pos) on a hidden cell flips that cell's flag and       *)
(* nothing else, and a second toggle_flag(pos) right after it gives back   *)
(* the board and the status of before the first; toggle_flag on a shown    *)
(* cell changes nothing.                                                   *)
C11_ToggleTwiceRestores ==
    [][\A pos \in Pos : Called("toggle_flag", pos) =>
          /\ has_lost' = has_lost
          /\ is_shown(cells[pos]) => cells' = cells
          /\ ~is_shown(cells[pos]) =>
                /\ \A q \in Pos \ {pos} : cells'[q] = cells[q]
                /\ is_flagged(cells'[pos]) # is_flagged(cells[pos])
                /\ toggle_flag_cells(cells', pos) = cells
                /\ status(toggle_flag_cells(cells', pos), has_lost') = status(cells, has_lost)
                /\ FlaggedCount(toggle_flag_cells(cells', pos)) = FlaggedCount(cells)]_vars

\* two toggle_flag calls on the same hidden cell of a mined board have run
C11_Witness ==
    /\ calls = 2 /\ last[1] = "toggle_flag" /\ last[2] \in Pos
    /\ FlaggedCount(cells) = 0 /\ ShownCount(cells) = 0 /\ MinedCount(cells) > 0
    /\ ret = InProgress(bombs)

----------------------------------------------------------------------------
(* C12, as claimed: whenever the status returned is InProgress(flagsLeft), *)
(* flagsLeft is the integer bombs - flaggedCount, for every bombs value in *)
(* 0..255: it never wraps around.                                          *)
C12_FlagsLeftExact ==
    (calls > 0 /\ ret.kind = "InProgress") =>
        ret.flags = bombs - FlaggedCount(cells)

----------------------------------------------------------------------------
(* C13, as claimed: on every board with rows and cols in 1..255, open(pos) *)
(* on a hidden, unflagged, unmined cell completes without overflow or      *)
(* abort, returns a status and leaves the cell at pos shown.               *)
C13_OpenSucceeds ==
    [][\A pos \in Pos : (Called("open", pos) /\ Fillable(cells, pos)) =>
          /\ ret' # Panic /\ ret' # Hang
          /\ is_shown(cells'[pos])]_vars

----------------------------------------------------------------------------
(* C14, as claimed: Cell::inc_bombs_around leaves a mined cell as it is    *)
(* and advances the count of any other cell by one (Empty counting as 0);  *)
(* no method of Cell turns a mined cell into an unmined one.               *)
C14_IncLeavesMineAlone ==
    [][/\ is_mined(cells[the_cell]) => is_mined(cells'[the_cell])
       /\ last' = <<"Cell::inc_bombs_around", the_cell>> =>
             IF is_mined(cells[the_cell])
             THEN cells' = cells
             ELSE cells'[the_cell] =
                     [cells[the_cell] EXCEPT
                         !.value = BombsAround(bombs_around(cells[the_cell]) + 1)]]_vars

----------------------------------------------------------------------------
(* C15: every open call ends: its sweep makes at most 9 * rows * cols + 1  *)
(* calls of sweep_mine, and marks each cell shown (expanding it) at most   *)
(* once, so at most rows * cols cells.                                     *)
Range(f) == {f[i] : i \in 1 .. Len(f)}

C15_SweepTerminates ==
    [][\A pos \in Pos : (Called("open", pos) /\ ~open_returns_early(cells[pos])) =>
          \E o \in {open_cells(cells, pos)} :
              /\ o.pending = <<>> /\ ~o.panic
              /\ ret' # Hang /\ ret' # Panic
              /\ Len(o.log) <= rows * cols
              /\ Cardinality(Range(o.log)) = Len(o.log)
              /\ Range(o.log) = {q \in NewlyShown : ~is_mined(cells[q])}]_vars

\* an open has swept a whole region, coming back to cells it had shown
C15_Witness ==
    /\ last[1] = "open" /\ ~has_lost
    /\ ShownCount(cells) >= 15 /\ MinedCount(cells) = 1
    /\ ret.kind = "InProgress"

----------------------------------------------------------------------------
(* C16: with the mines planted before play, a cell is exploded iff it is   *)
(* mined and shown; an unmined cell is never exploded and an exploded cell *)
(* stays exploded.                                                         *)
ExplodedIffMinedShown(cs) ==
    \A q \in Pos : is_exploded(cs[q]) <=> (is_mined(cs[q]) /\ is_shown(cs[q]))

C16_ExplodedIffMinedShown ==
    [][/\ ExplodedIffMinedShown(cells) /\ ExplodedIffMinedShown(cells')
       /\ \A q \in Pos : is_exploded(cells[q]) => is_exploded(cells'[q])]_vars

\* one mine has exploded, another is still hidden, and play went on
C16_Witness ==
    /\ \E q \in Pos : is_exploded(cells[q]) /\ is_mined(cells[q]) /\ is_shown(cells[q])
    /\ \E m \in Pos : is_mined(cells[m]) /\ ~is_shown(cells[m]) /\ ~is_exploded(cells[m])
    /\ last[1] = "open" /\ ~is_mined(cells[last[2]]) /\ is_shown(cells[last[2]])

----------------------------------------------------------------------------
(* C17: open(pos) on a hidden, unflagged, mined cell marks that cell       *)
(* exploded and shown, changes no other cell, sets the game lost and       *)
(* returns Lost.                                                           *)
C17_OpenMineShowsOnlyIt ==
    [][\A pos \in Pos :
          (/\ Called("open", pos)
           /\ is_mined(cells[pos])
           /\ ~is_shown(cells[pos]) /\ ~is_flagged(cells[pos])) =>
              /\ cells' = [cells EXCEPT ![pos] = [@ EXCEPT !.shown = TRUE, !.exploded = TRUE]]
              /\ NewlyShown = {pos}
              /\ has_lost'
              /\ ret' = Lost]_vars

\* the first mine was just opened: only it is shown, beside hidden unmined cells
C17_Witness ==
    /\ ret = Lost /\ last[1] = "open" /\ is_exploded(cells[last[2]])
    /\ {q \in Pos : is_shown(cells[q])} = {last[2]}
    /\ \E q \in Clipped(last[2]) : ~is_mined(cells[q]) /\ ~is_flagged(cells[q])

----------------------------------------------------------------------------
(* C18: when exactly `bombs` mines were planted, at distinct positions and *)
(* before play, the status returned is Won iff every unmined cell is shown *)
(* and no mined cell is shown.                                             *)
AllClear(cs) ==
    /\ \A q \in Pos : ~is_mined(cs[q]) => is_shown(cs[q])
    /\ \A q \in Pos : is_mined(cs[q]) => ~is_shown(cs[q])

C18_WonIffAllClear ==
    (calls > 0 /\ Cardinality(planted) = bombs /\ MinedCount(cells) = bombs) =>
        (ret = Won <=> AllClear(cells))

\* a game with its one mine planted is won: the mine is hidden, the rest shown
C18_Witness ==
    /\ ret = Won /\ bombs = 1 /\ planted # {} /\ MinedCount(cells) = 1
    /\ ShownCount(cells) = rows * cols - 1 /\ ShownCount(cells) > 1
    /\ AllClear(cells)

----------------------------------------------------------------------------
(* C19: no cell is both shown and flagged: no call shows a flagged cell    *)
(* and no call flags a shown cell.                                         *)
C19_NeverShownAndFlagged ==
    [][\A q \in Pos :
          /\ ~(is_shown(cells'[q]) /\ is_flagged(cells'[q]))
          /\ is_flagged(cells[q]) => ~is_shown(cells'[q])
          /\ is_shown(cells[q]) => ~is_flagged(cells'[q])]_vars

\* toggle_flag was called on a shown cell, and a sweep has passed a flagged one
C19_Witness ==
    /\ last[1] = "toggle_flag" /\ is_shown(cells[last[2]])
    /\ \E f \in Pos : is_flagged(cells[f]) /\ ~is_shown(cells[f]) /\ BesideShownZero(f)

----------------------------------------------------------------------------
(* C20, as claimed: in every state, every neighbour of a shown, unmined    *)
(* cell with count 0 is shown or flagged.                                  *)
ShownZero(cs, z) == is_shown(cs[z]) /\ ~is_mined(cs[z]) /\ bombs_around(cs[z]) = 0

C20_ZeroNeighboursShownOrFlagged ==
    \A z \in Pos : ShownZero(cells, z) =>
        \A q \in Clipped(z) : is_shown(cells[q]) \/ is_flagged(cells[q])

(* C20, amended: right after the open call that shows it, every neighbour  *)
(* of a newly shown, unmined cell with count 0 is shown or flagged (a      *)
(* neighbour flagged at that call stays hidden, also once its flag is      *)
(* removed).                                                               *)
C20_ZeroNeighboursShownOrFlaggedAfterOpen ==
    [][\A z \in NewlyShown : ShownZero(cells', z) =>
          \A q \in Clipped(z) : is_shown(cells'[q]) \/ is_flagged(cells'[q])]_vars

\* an open has just shown a count-0 cell beside a flagged, hidden cell
C20_Witness ==
    /\ last[1] = "open" /\ ShownZero(cells, last[2])
    /\ \E f \in Clipped(last[2]) : is_flagged(cells[f]) /\ ~is_shown(cells[f])
    /\ \E q \in Clipped(last[2]) : is_shown(cells[q])

====
